---- MODULE Spec2Model ----
(***************************************************************************)
(* Model of the diff-to-quiz pipeline of RuleYourUsage (/doi skill):       *)
(*   - the question-count functions of src/doi/git/extract.ts and          *)
(*     src/doi/questions/generate.ts,                                      *)
(*   - the category distribution of src/doi/questions/generate.ts,         *)
(*   - the QuizStats functions of src/doi/ui/interactive.ts, driven by the *)
(*     session state machine,                                              *)
(*   - the git output parsers, calculateStats, mergeFileData,              *)
(*     calculateComplexity and validateContext of src/doi/git/extract.ts,  *)
(*   - createEmptyQuestionSet of src/doi/questions/generate.ts,            *)
(*   - the diff classifier and the vibe-debt record lifecycle, over the    *)
(*     types of src/doi/types.ts.                                          *)
(*                                                                         *)
(* Numbers.  The TypeScript code computes in IEEE doubles.  Over the       *)
(* ranges explored here every product and quotient the code forms is       *)
(* evaluated exactly as the integer expressions below evaluate it:         *)
(*   Math.ceil(r * 0.25), Math.ceil(r * 0.4), Math.ceil(r * 0.5) and       *)
(*   Math.floor(c * 0.6) agree with the exact ceiling/floor for all        *)
(*   0 <= r, c < 2000, and Math.round((x / t) * 100) agrees with exact     *)
(*   round-half-up for all 0 <= x <= t < 40 (the first double that         *)
(*   differs is x = 23, t = 40).  A division by zero yields NaN or         *)
(*   Infinity, which is why vibeDebtPercent is a tagged value.             *)
(***************************************************************************)
EXTENDS Integers, FiniteSets, Sequences, TLC

\* ------------------------------------------------------------------------
\* Bounds of the exploration
\* ------------------------------------------------------------------------
MaxLineSteps == 22
MaxLinesAdded == 1300
MaxLinesRemoved == 1
MaxChanges == 2
MaxFiles == 11
MaxBound == 11
MaxPlanTotal == 12
MaxQuestions == 6
MaxRescores == 2
MaxNumstatLines == 2
MaxNameStatusLines == 2
MaxLogLines == 2
MaxComplexityFiles == 11
MaxExtensions == 6
MaxSmallLines == 40
MaxLineBlocks == 30
MaxKeyFiles == 2
MaxDebtQuestions == 3
MaxClassFiles == 3
MaxScoreKeyFiles == 6
MaxVerdicts == 4

\* ------------------------------------------------------------------------
\* Types (src/doi/types.ts)
\* ------------------------------------------------------------------------
ChangeCategory ==
  {"new-feature", "modified-logic", "refactoring", "deletion",
   "configuration", "documentation", "testing"}

QuestionCategory == {"why", "how", "what-if", "impact"}

DEFAULT_CONFIG == [minQuestions |-> 2, maxQuestions |-> 10]

Max(a, b) == IF a >= b THEN a ELSE b
Min(a, b) == IF a <= b THEN a ELSE b

\* a JavaScript number that is either an integer, NaN or Infinity
Finite(n) == [kind |-> "finite", val |-> n]
NaN == [kind |-> "NaN", val |-> 0]
Infinity == [kind |-> "Infinity", val |-> 0]

\* the value of a missing field, property or array element
Undefined == "<undefined>"

\* Math.ceil(n * num / den) and Math.floor(n * num / den) for n >= 0
CeilFrac(n, num, den) == (n * num + den - 1) \div den
FloorFrac(n, num, den) == (n * num) \div den

\* ------------------------------------------------------------------------
\* State
\* ------------------------------------------------------------------------
VARIABLES
  summary,        \* DiffSummary: stats, categories of changes, number of files
                  \* changed, number of key files
  minQuestions,   \* configured minimum question count
  maxQuestions,   \* configured maximum question count
  planTotal,      \* totalQuestions handed to distributeQuestionCategories
  call,           \* the planner function applied last ("none" before any)
  result,         \* its return value
  distribution,   \* Record<QuestionCategory, number> returned last
  phase,          \* session state: NotStarted, InProgress, Finished
  stats,          \* QuizStats threaded through the session
  last,           \* the last QuizStats call: function, argument, argument
                  \* object after the call, verdict / remainingCount
  raw,            \* git output: numstat, nameStatus and log, each a sequence
                  \* of lines, a line being its sequence of separated fields
  numstatFiles,   \* ChangedFile[] returned by parseNumstat
  nameStatusMap,  \* Map returned by parseNameStatus
  files,          \* ChangedFile[] returned by mergeFileData
  diffStats,      \* DiffStats
  commits,        \* BranchCommit[] returned by parseCommitLog
  step,           \* the extraction function applied last
  complexity,     \* value returned by calculateComplexity
  context,        \* GitContext
  validation,     \* value returned by validateContext
  questionSet,    \* QuestionSet returned by createEmptyQuestionSet
  previous,       \* the planner call before the last one and what it returned
  groups,         \* CategorizedChange groups produced by classification
  questions,      \* status of each question of the session, by position
  record          \* the persisted VibeDebtRecord, if any

vars == <<summary, minQuestions, maxQuestions, planTotal, call, result,
          distribution, phase, stats, last, raw, numstatFiles, nameStatusMap,
          files, diffStats, commits, step, complexity, context, validation,
          questionSet, previous, groups, questions, record>>

plannerVars == <<summary, minQuestions, maxQuestions, planTotal, call, result,
                 distribution, questionSet, previous>>
quizVars == <<phase, stats, last>>
extractVars == <<raw, numstatFiles, nameStatusMap, files, diffStats, commits,
                 step, complexity, groups>>
contextVars == <<context, validation>>
debtVars == <<questions, record>>

\* ------------------------------------------------------------------------
\* extract.ts: calculateQuestionCount
\* ------------------------------------------------------------------------
TotalLines(s) == s.linesAdded + s.linesRemoved

\* the small-diff branch returning the upper end of its documented "2-3"
recommendedForLinesSmall3(totalLines) ==
  IF totalLines <= 50 THEN 3
  ELSE IF totalLines <= 200 THEN 4 + ((totalLines - 50) \div 50)
  ELSE IF totalLines <= 500 THEN 6 + ((totalLines - 200) \div 150)
  ELSE 8 + Min(2, (totalLines - 500) \div 250)

\* the band boundaries compared with < instead of <=
recommendedForLinesStrict(totalLines) ==
  IF totalLines < 50 THEN 2
  ELSE IF totalLines < 200 THEN 4 + ((totalLines - 50) \div 50)
  ELSE IF totalLines < 500 THEN 6 + ((totalLines - 200) \div 150)
  ELSE 8 + Min(2, (totalLines - 500) \div 250)

recommendedForLines(totalLines) ==
  IF totalLines <= 50 THEN 2
  ELSE IF totalLines <= 200 THEN 4 + ((totalLines - 50) \div 50)
  ELSE IF totalLines <= 500 THEN 6 + ((totalLines - 200) \div 150)
  ELSE 8 + Min(2, (totalLines - 500) \div 250)

\* the final clamp without its upper bound
clampUnbounded(minQ, maxQ, recommended) == Max(minQ, recommended)

clamp(minQ, maxQ, recommended) == Max(minQ, Min(maxQ, recommended))

calculateQuestionCount(s, minQ, maxQ) ==
  clamp(minQ, maxQ, recommendedForLines(TotalLines(s)))

\* ------------------------------------------------------------------------
\* generate.ts: calculateRecommendedQuestionCount
\* ------------------------------------------------------------------------
baseCount(totalLines) ==
  IF totalLines <= 50 THEN 2
  ELSE IF totalLines <= 200 THEN Min(6, 3 + ((totalLines - 50) \div 50))
  ELSE IF totalLines <= 500 THEN Min(8, 5 + ((totalLines - 200) \div 100))
  ELSE Min(10, 7 + ((totalLines - 500) \div 200))

hasLogicChanges(changes) ==
  \E c \in changes : c = "new-feature" \/ c = "modified-logic"

\* one more question for a branch whose inferred intent is a bug fix
calculateRecommendedByIntent(sum, minQ, maxQ) ==
  LET count0 == baseCount(TotalLines(sum.stats))
      count1 == IF sum.filesChanged > 10 THEN Min(count0 + 1, maxQ) ELSE count0
      count2 == IF ~hasLogicChanges(sum.changes)
                THEN Max(minQ, FloorFrac(count1, 3, 5))
                ELSE count1
      count3 == IF sum.inferredIntent = "fixes a bug" THEN count2 + 1 ELSE count2
  IN  Max(minQ, Min(maxQ, count3))

calculateRecommendedQuestionCount(sum, minQ, maxQ) ==
  LET count0 == baseCount(TotalLines(sum.stats))
      count1 == IF sum.filesChanged > 10 THEN Min(count0 + 1, maxQ) ELSE count0
      count2 == IF ~hasLogicChanges(sum.changes)
                THEN Max(minQ, FloorFrac(count1, 3, 5))
                ELSE count1
  IN  Max(minQ, Min(maxQ, count2))

\* ------------------------------------------------------------------------
\* Inputs
\* ------------------------------------------------------------------------
ChangeSets == {S \in SUBSET ChangeCategory : Cardinality(S) <= MaxChanges}
\* file counts on both sides of the "more than 10 files" adjustment
FileCounts == {0} \cup (10 .. MaxFiles)
BoundPairs == {p \in (0 .. MaxBound) \X (0 .. MaxBound) : p[1] <= p[2]}
LineSamples == {50 * k : k \in 0 .. MaxLineSteps}

NoStats == [totalQuestions |-> 0, correct |-> 0, incorrect |-> 0, skipped |-> 0,
            vibeDebtPercent |-> [kind |-> "finite", val |-> 0]]
NoDistribution == [c \in QuestionCategory |-> 0]
NoLast == [fn |-> "none", before |-> NoStats, argAfter |-> NoStats,
           verdict |-> "none", remainingCount |-> 0, error |-> FALSE]

QuizIdle ==
  /\ phase = "NotStarted"
  /\ stats = NoStats
  /\ last = NoLast

NoQuestionSet == [questions |-> <<>>, recommendedCount |-> 0, complexityScore |-> 0]

NoPrevious == [call |-> "none", result |-> 0, distribution |-> NoDistribution]

PlannerResultsIdle ==
  /\ planTotal = 0
  /\ call = "none"
  /\ result = 0
  /\ distribution = NoDistribution
  /\ questionSet = NoQuestionSet
  /\ previous = NoPrevious

NoDiffStats == [filesChanged |-> 0, linesAdded |-> Finite(0),
                linesRemoved |-> Finite(0), netChange |-> Finite(0)]

ExtractResultsIdle ==
  /\ numstatFiles = <<>>
  /\ nameStatusMap = <<>>
  /\ files = <<>>
  /\ diffStats = NoDiffStats
  /\ commits = <<>>
  /\ step = "none"
  /\ complexity = Finite(0)
  /\ groups = {}

ExtractIdle ==
  /\ raw = [numstat |-> <<>>, nameStatus |-> <<>>, log |-> <<>>]
  /\ ExtractResultsIdle

\* a validation result; error is the message as the pieces the code
\* concatenates, hasError tells whether the result has an error property
NoValidation == [isValid |-> FALSE, hasError |-> FALSE, error |-> <<>>]

\* no record file; saved tells whether the persist stage has run
NoRecord == [saved |-> FALSE, exists |-> FALSE, vibeDebt |-> <<>>,
             stats |-> NoStats]

DebtIdle ==
  /\ questions = <<>>
  /\ record = NoRecord

ContextIdle ==
  /\ context = [currentBranch |-> "", defaultBranch |-> "", hasChanges |-> FALSE,
                error |-> Undefined]
  /\ validation = NoValidation

\* every combination of sampled line counts, change categories, file counts
\* and configured bounds
InitCount ==
  /\ \E la \in LineSamples, lr \in 0 .. MaxLinesRemoved,
        ch \in ChangeSets, nf \in FileCounts :
       summary = [stats |-> [linesAdded |-> la, linesRemoved |-> lr],
                  changes |-> ch, filesChanged |-> nf, keyFiles |-> 0]
  /\ \E p \in BoundPairs : minQuestions = p[1] /\ maxQuestions = p[2]
  /\ PlannerResultsIdle
  /\ QuizIdle
  /\ DebtIdle
  /\ ExtractIdle
  /\ ContextIdle

\* every line count, default configuration
InitTable ==
  /\ \E la \in 0 .. MaxLinesAdded, lr \in 0 .. MaxLinesRemoved :
       summary = [stats |-> [linesAdded |-> la, linesRemoved |-> lr],
                  changes |-> {"modified-logic"}, filesChanged |-> 1,
                  keyFiles |-> 0]
  /\ minQuestions = DEFAULT_CONFIG.minQuestions
  /\ maxQuestions = DEFAULT_CONFIG.maxQuestions
  /\ PlannerResultsIdle
  /\ QuizIdle
  /\ DebtIdle
  /\ ExtractIdle
  /\ ContextIdle

\* ------------------------------------------------------------------------
\* Planner operations
\* ------------------------------------------------------------------------
CalculateQuestionCount ==
  /\ call = "none"
  /\ call' = "calculateQuestionCount"
  /\ result' = calculateQuestionCount(summary.stats, minQuestions, maxQuestions)
  /\ UNCHANGED <<summary, minQuestions, maxQuestions, planTotal, distribution,
                 previous>>
  /\ UNCHANGED <<questionSet, quizVars, extractVars, contextVars, debtVars>>

CalculateRecommendedQuestionCount ==
  /\ call = "none"
  /\ call' = "calculateRecommendedQuestionCount"
  /\ result' = calculateRecommendedQuestionCount(summary, minQuestions, maxQuestions)
  /\ UNCHANGED <<summary, minQuestions, maxQuestions, planTotal, distribution,
                 previous>>
  /\ UNCHANGED <<questionSet, quizVars, extractVars, contextVars, debtVars>>

NextCount == CalculateQuestionCount \/ CalculateRecommendedQuestionCount

SpecCount == InitCount /\ [][NextCount]_vars
SpecTable == InitTable /\ [][NextCount]_vars

\* ------------------------------------------------------------------------
\* generate.ts: distributeQuestionCategories
\* ------------------------------------------------------------------------
\* the distribution with Math.floor instead of Math.ceil for "how"
distributeFloorHow(totalQuestions, sum) ==
  LET hasLogic == "new-feature" \in sum.changes \/ "modified-logic" \in sum.changes
      toImpact == \E x \in {"refactoring", "deletion", "modified-logic"} :
                    x \in sum.changes
      why == CeilFrac(totalQuestions, 1, 4)
      how0 == IF hasLogic THEN FloorFrac(totalQuestions - why, 2, 5) ELSE 0
      whatIf == IF hasLogic THEN CeilFrac(totalQuestions - why - how0, 1, 2) ELSE 0
      remaining == totalQuestions - why - how0 - whatIf
  IN  [c \in QuestionCategory |->
         CASE c = "why" -> why
           [] c = "how" -> IF toImpact THEN how0 ELSE how0 + remaining
           [] c = "what-if" -> whatIf
           [] OTHER -> IF toImpact THEN remaining ELSE 0]

\* the distribution without the else branch that folds the leftover into "how"
distributeDropLeftover(totalQuestions, sum) ==
  LET hasLogic == "new-feature" \in sum.changes \/ "modified-logic" \in sum.changes
      why == CeilFrac(totalQuestions, 1, 4)
      how == IF hasLogic THEN CeilFrac(totalQuestions - why, 2, 5) ELSE 0
      whatIf == IF hasLogic THEN CeilFrac(totalQuestions - why - how, 1, 2) ELSE 0
      remaining == totalQuestions - why - how - whatIf
  IN  [c \in QuestionCategory |->
         CASE c = "why" -> why
           [] c = "how" -> how
           [] c = "what-if" -> whatIf
           [] OTHER -> IF \E x \in {"refactoring", "deletion", "modified-logic"} :
                            x \in sum.changes
                       THEN remaining ELSE 0]

distributeQuestionCategories(totalQuestions, sum) ==
  LET hasNewFeatures == \E c \in sum.changes : c = "new-feature"
      hasModifiedLogic == \E c \in sum.changes : c = "modified-logic"
      hasDeletions == \E c \in sum.changes : c = "deletion"
      hasRefactoring == \E c \in sum.changes : c = "refactoring"
      why == CeilFrac(totalQuestions, 1, 4)
      remaining1 == totalQuestions - why
      how0 == IF hasNewFeatures \/ hasModifiedLogic
              THEN CeilFrac(remaining1, 2, 5) ELSE 0
      remaining2 == remaining1 - how0
      whatIf == IF hasModifiedLogic \/ hasNewFeatures
                THEN CeilFrac(remaining2, 1, 2) ELSE 0
      remaining3 == remaining2 - whatIf
      toImpact == hasRefactoring \/ hasDeletions \/ hasModifiedLogic
  IN  [c \in QuestionCategory |->
         CASE c = "why" -> why
           [] c = "how" -> IF toImpact THEN how0 ELSE how0 + remaining3
           [] c = "what-if" -> whatIf
           [] OTHER -> IF toImpact THEN remaining3 ELSE 0]

\* every total and every combination of change categories
InitDist ==
  /\ \E ch \in ChangeSets :
       summary = [stats |-> [linesAdded |-> 0, linesRemoved |-> 0],
                  changes |-> ch, filesChanged |-> Cardinality(ch),
                  keyFiles |-> 0]
  /\ minQuestions = DEFAULT_CONFIG.minQuestions
  /\ maxQuestions = DEFAULT_CONFIG.maxQuestions
  /\ planTotal \in 0 .. MaxPlanTotal
  /\ call = "none"
  /\ result = 0
  /\ distribution = NoDistribution
  /\ questionSet = NoQuestionSet
  /\ previous = NoPrevious
  /\ QuizIdle
  /\ DebtIdle
  /\ ExtractIdle
  /\ ContextIdle

DistributeQuestionCategories ==
  /\ call = "none"
  /\ call' = "distributeQuestionCategories"
  /\ distribution' = distributeQuestionCategories(planTotal, summary)
  /\ UNCHANGED <<summary, minQuestions, maxQuestions, planTotal, result,
                 previous>>
  /\ UNCHANGED <<questionSet, quizVars, extractVars, contextVars, debtVars>>

NextDist == DistributeQuestionCategories

SpecDist == InitDist /\ [][NextDist]_vars

\* ------------------------------------------------------------------------
\* interactive.ts: QuizStats
\* ------------------------------------------------------------------------
\* Math.round((debt / totalQuestions) * 100)
roundPercent(debt, totalQuestions) ==
  IF totalQuestions = 0
  THEN IF debt = 0 THEN NaN ELSE Infinity
  ELSE Finite((200 * debt + totalQuestions) \div (2 * totalQuestions))

createInitialStats(totalQuestions) ==
  [totalQuestions |-> totalQuestions, correct |-> 0, incorrect |-> 0,
   skipped |-> 0, vibeDebtPercent |-> Finite(0)]

\* a switch whose 'incorrect'/'revealed' case lacks its break
countVerdictFallThrough(s, verdict) ==
  CASE verdict = "correct" -> [s EXCEPT !.correct = @ + 1]
    [] verdict \in {"incorrect", "revealed"} ->
         [s EXCEPT !.incorrect = @ + 1, !.skipped = @ + 1]
    [] verdict = "skipped" -> [s EXCEPT !.skipped = @ + 1]
    [] OTHER -> s

\* the counters after the switch statement
countVerdict(s, verdict) ==
  CASE verdict = "correct" -> [s EXCEPT !.correct = @ + 1]
    [] verdict \in {"incorrect", "revealed"} -> [s EXCEPT !.incorrect = @ + 1]
    [] verdict = "skipped" -> [s EXCEPT !.skipped = @ + 1]
    [] OTHER -> s

\* updateStats without its switch statement: no counter is incremented
updateStatsNoCount(s, verdict) ==
  [arg |-> s, error |-> FALSE,
   ret |-> [s EXCEPT !.vibeDebtPercent =
              roundPercent(s.incorrect + s.skipped, s.totalQuestions)]]

\* updateStats writing into its argument instead of a copy
updateStatsInPlace(s, verdict) ==
  LET counted == countVerdict(s, verdict)
      updated == [counted EXCEPT !.vibeDebtPercent =
                    roundPercent(counted.incorrect + counted.skipped,
                                 counted.totalQuestions)]
  IN  [arg |-> updated, ret |-> updated, error |-> FALSE]

\* updateStats computing the percentage before the switch statement
updateStatsStalePercent(s, verdict) ==
  [arg |-> s, error |-> FALSE,
   ret |-> [countVerdict(s, verdict) EXCEPT !.vibeDebtPercent =
              roundPercent(s.incorrect + s.skipped, s.totalQuestions)]]

\* arg is the caller's object after the call, ret the returned object, error
\* whether the call reported an error (the function has no throw statement)
updateStats(s, verdict) ==
  LET counted == countVerdict(s, verdict)
      updated == [counted EXCEPT !.vibeDebtPercent =
                    roundPercent(counted.incorrect + counted.skipped,
                                 counted.totalQuestions)]
  IN  [arg |-> s, ret |-> updated, error |-> FALSE]

\* skipRemaining forgetting the questions skipped before
skipRemainingOnly(s, remainingCount) ==
  [arg |-> s, error |-> FALSE,
   ret |-> [s EXCEPT !.skipped = remainingCount,
                     !.vibeDebtPercent =
                        roundPercent(s.incorrect + remainingCount,
                                     s.totalQuestions)]]

\* skipRemaining keeping the percentage of its argument
skipRemainingStalePercent(s, remainingCount) ==
  [arg |-> s, error |-> FALSE,
   ret |-> [s EXCEPT !.skipped = s.skipped + remainingCount]]

skipRemaining(s, remainingCount) ==
  [arg |-> s, error |-> FALSE,
   ret |-> [s EXCEPT !.skipped = s.skipped + remainingCount,
                     !.vibeDebtPercent =
                        roundPercent(s.incorrect + s.skipped + remainingCount,
                                     s.totalQuestions)]]

\* ------------------------------------------------------------------------
\* Session state machine
\* ------------------------------------------------------------------------
Verdicts == {"correct", "incorrect", "revealed", "skipped"}

Answered(s) == s.correct + s.incorrect + s.skipped

PlannerIdle ==
  /\ summary = [stats |-> [linesAdded |-> 0, linesRemoved |-> 0],
                changes |-> {}, filesChanged |-> 0, keyFiles |-> 0]
  /\ minQuestions = DEFAULT_CONFIG.minQuestions
  /\ maxQuestions = DEFAULT_CONFIG.maxQuestions
  /\ PlannerResultsIdle

InitQuiz ==
  /\ PlannerIdle
  /\ QuizIdle
  /\ DebtIdle
  /\ ExtractIdle
  /\ ContextIdle

\* NotStarted -> InProgress with the generated questions
Start ==
  /\ phase = "NotStarted"
  /\ \E n \in 0 .. MaxQuestions :
       /\ stats' = createInitialStats(n)
       /\ last' = [fn |-> "createInitialStats", before |-> stats,
                   argAfter |-> stats, verdict |-> "none", remainingCount |-> n,
                   error |-> FALSE]
  /\ phase' = "InProgress"
  /\ UNCHANGED <<plannerVars, extractVars, contextVars, debtVars>>

\* one verdict for the question currently presented
Answer ==
  /\ phase = "InProgress"
  /\ Answered(stats) < stats.totalQuestions
  /\ \E v \in Verdicts :
       LET r == updateStats(stats, v)
       IN  /\ stats' = r.ret
           /\ last' = [fn |-> "updateStats", before |-> stats,
                       argAfter |-> r.arg, verdict |-> v, remainingCount |-> 0,
                       error |-> r.error]
  /\ phase' = "InProgress"
  /\ UNCHANGED <<plannerVars, extractVars, contextVars, debtVars>>

\* the skip-all signal: every not-yet-answered question becomes skipped
SkipAll ==
  /\ phase = "InProgress"
  /\ LET remainingCount == stats.totalQuestions - Answered(stats)
         r == skipRemaining(stats, remainingCount)
     IN  /\ stats' = r.ret
         /\ last' = [fn |-> "skipRemaining", before |-> stats,
                     argAfter |-> r.arg, verdict |-> "none",
                     remainingCount |-> remainingCount, error |-> r.error]
  /\ phase' = "Finished"
  /\ UNCHANGED <<plannerVars, extractVars, contextVars, debtVars>>

\* the question list is exhausted
Finish ==
  /\ phase = "InProgress"
  /\ Answered(stats) = stats.totalQuestions
  /\ phase' = "Finished"
  /\ UNCHANGED <<stats, last>>
  /\ UNCHANGED <<plannerVars, extractVars, contextVars, debtVars>>

NextQuiz == Start \/ Answer \/ SkipAll \/ Finish

SpecQuiz == InitQuiz /\ [][NextQuiz]_vars

\* the interactive collaborator eventually answers the question presented,
\* and the loop itself starts and ends without waiting for anyone; the
\* skip-all signal may never come
SpecQuizFair ==
  SpecQuiz /\ WF_vars(Start) /\ WF_vars(Answer) /\ WF_vars(Finish)

\* a caller applying updateStats again although every question is already
\* scored or skipped; updateStats itself has no guard
Rescore ==
  /\ phase \in {"InProgress", "Finished"}
  /\ Answered(stats) >= stats.totalQuestions
  /\ Answered(stats) < stats.totalQuestions + MaxRescores
  /\ \E v \in Verdicts :
       LET r == updateStats(stats, v)
       IN  /\ stats' = r.ret
           /\ last' = [fn |-> "updateStats", before |-> stats,
                       argAfter |-> r.arg, verdict |-> v, remainingCount |-> 0,
                       error |-> r.error]
  /\ UNCHANGED phase
  /\ UNCHANGED <<plannerVars, extractVars, contextVars, debtVars>>

NextRescore == NextQuiz \/ Rescore

SpecRescore == InitQuiz /\ [][NextRescore]_vars

\* ------------------------------------------------------------------------
\* Verdicts applied one after the other, with the list of those applied
\* ------------------------------------------------------------------------
InitVerdicts ==
  /\ \E n \in 1 .. MaxVerdicts : stats = createInitialStats(n)
  /\ phase = "InProgress"
  /\ last = NoLast
  /\ questions = <<>>
  /\ record = NoRecord
  /\ PlannerIdle
  /\ ExtractIdle
  /\ ContextIdle

ApplyVerdict ==
  /\ Len(questions) < stats.totalQuestions
  /\ \E v \in Verdicts :
       LET r == updateStats(stats, v)
       IN  /\ stats' = r.ret
           /\ last' = [fn |-> "updateStats", before |-> stats,
                       argAfter |-> r.arg, verdict |-> v, remainingCount |-> 0,
                       error |-> r.error]
           /\ questions' = Append(questions, v)
  /\ UNCHANGED <<phase, record>>
  /\ UNCHANGED <<plannerVars, extractVars, contextVars>>

NextVerdicts == ApplyVerdict

SpecVerdicts == InitVerdicts /\ [][NextVerdicts]_vars

\* ------------------------------------------------------------------------
\* extract.ts: parsing
\*
\* A git output is a sequence of lines, a line the sequence of the fields
\* its separator (tab, or space for the commit log) splits it into; the
\* blank line is the line with one empty field.  The sampled lines carry no
\* whitespace that output.trim() would remove, apart from blank lines.
\* ------------------------------------------------------------------------
BlankLine == <<"">>

IsNonBlank(line) == line # BlankLine

\* output.trim().split('\n').filter(Boolean)
nonBlankLines(output) == SelectSeq(output, IsNonBlank)

\* element i of a destructured array
Field(line, i) == IF i <= Len(line) THEN line[i] ELSE Undefined

\* parseInt(s, 10) on the field values in use
parseInt(s) ==
  CASE s = "0" -> Finite(0)
    [] s = "3" -> Finite(3)
    [] s = "5" -> Finite(5)
    [] OTHER -> NaN

\* a + b and a - b on JavaScript numbers
JsAdd(a, b) ==
  IF a.kind = "finite" /\ b.kind = "finite" THEN Finite(a.val + b.val) ELSE NaN
JsSub(a, b) ==
  IF a.kind = "finite" /\ b.kind = "finite" THEN Finite(a.val - b.val) ELSE NaN

\* one iteration of the loop of parseNumstat
numstatRecord(line) ==
  LET added == Field(line, 1)
      removed == Field(line, 2)
      path == Field(line, 3)
  IN  [path |-> path,
       changeType |-> "modified",
       linesAdded |-> IF added = "-" THEN Finite(0) ELSE parseInt(added),
       linesRemoved |-> IF removed = "-" THEN Finite(0) ELSE parseInt(removed),
       newPath |-> Undefined]

parseNumstat(numstatOutput) ==
  LET lines == nonBlankLines(numstatOutput)
  IN  [i \in 1 .. Len(lines) |-> numstatRecord(lines[i])]

\* status.startsWith('R') on the status values in use
StartsWithR(status) == status \in {"R", "R100", "R075"}

\* a rename entry keyed by the new path instead of the old one
nameStatusEntryByNewPath(line) ==
  LET status == line[1]
  IN  IF StartsWithR(status)
      THEN [key |-> Field(line, 3),
            value |-> [type |-> "renamed", newPath |-> Field(line, 2)]]
      ELSE IF status = "A"
      THEN [key |-> Field(line, 2), value |-> [type |-> "added", newPath |-> Undefined]]
      ELSE IF status = "D"
      THEN [key |-> Field(line, 2), value |-> [type |-> "deleted", newPath |-> Undefined]]
      ELSE [key |-> Field(line, 2), value |-> [type |-> "modified", newPath |-> Undefined]]

\* the key and value one line makes parseNameStatus set
nameStatusEntry(line) ==
  LET status == line[1]
  IN  IF StartsWithR(status)
      THEN [key |-> Field(line, 2),
            value |-> [type |-> "renamed", newPath |-> Field(line, 3)]]
      ELSE IF status = "A"
      THEN [key |-> Field(line, 2), value |-> [type |-> "added", newPath |-> Undefined]]
      ELSE IF status = "D"
      THEN [key |-> Field(line, 2), value |-> [type |-> "deleted", newPath |-> Undefined]]
      ELSE [key |-> Field(line, 2), value |-> [type |-> "modified", newPath |-> Undefined]]

EmptyMap == [k \in {} |-> Undefined]

\* Map.prototype.set
MapSet(m, k, v) == [x \in DOMAIN m \cup {k} |-> IF x = k THEN v ELSE m[x]]

RECURSIVE setEntries(_, _)
setEntries(lines, m) ==
  IF lines = <<>> THEN m
  ELSE LET e == nameStatusEntry(Head(lines))
       IN  setEntries(Tail(lines), MapSet(m, e.key, e.value))

parseNameStatus(nameStatusOutput) ==
  setEntries(nonBlankLines(nameStatusOutput), EmptyMap)

\* line.indexOf(' ') > 0: a space exists and is not the first character
HasShaAndMessage(line) == Len(line) >= 2 /\ line[1] # ""

parseCommitLog(logOutput) ==
  LET lines == SelectSeq(nonBlankLines(logOutput), HasShaAndMessage)
  IN  [i \in 1 .. Len(lines) |->
         [sha |-> lines[i][1], message |-> Tail(lines[i])]]

\* ------------------------------------------------------------------------
\* extract.ts: calculateStats, mergeFileData
\* ------------------------------------------------------------------------
RECURSIVE addedUpTo(_, _)
addedUpTo(fs, i) ==
  IF i = 0 THEN Finite(0) ELSE JsAdd(addedUpTo(fs, i - 1), fs[i].linesAdded)

RECURSIVE removedUpTo(_, _)
removedUpTo(fs, i) ==
  IF i = 0 THEN Finite(0) ELSE JsAdd(removedUpTo(fs, i - 1), fs[i].linesRemoved)

\* netChange computed as the total of changed lines
calculateStatsNetTotal(fs) ==
  LET linesAdded == addedUpTo(fs, Len(fs))
      linesRemoved == removedUpTo(fs, Len(fs))
  IN  [arg |-> fs,
       ret |-> [filesChanged |-> Len(fs), linesAdded |-> linesAdded,
                linesRemoved |-> linesRemoved,
                netChange |-> JsAdd(linesAdded, linesRemoved)]]

\* arg is the caller's list after the call, ret the returned DiffStats
calculateStats(fs) ==
  LET linesAdded == addedUpTo(fs, Len(fs))
      linesRemoved == removedUpTo(fs, Len(fs))
  IN  [arg |-> fs,
       ret |-> [filesChanged |-> Len(fs), linesAdded |-> linesAdded,
                linesRemoved |-> linesRemoved,
                netChange |-> JsSub(linesAdded, linesRemoved)]]

\* mergeFileData returning only the files the name-status map knows
mergeFileDataMatchedOnly(nsFiles, nsMap) ==
  LET known(file) == file.path \in DOMAIN nsMap
      matched == SelectSeq(nsFiles, known)
  IN  [i \in 1 .. Len(matched) |->
         [matched[i] EXCEPT !.changeType = nsMap[matched[i].path].type,
                            !.newPath = nsMap[matched[i].path].newPath]]

mergeFileData(nsFiles, nsMap) ==
  [i \in 1 .. Len(nsFiles) |->
     LET file == nsFiles[i]
     IN  IF file.path \in DOMAIN nsMap
         THEN [file EXCEPT !.changeType = nsMap[file.path].type,
                           !.newPath = nsMap[file.path].newPath]
         ELSE file]

\* ------------------------------------------------------------------------
\* Extraction inputs and steps
\* ------------------------------------------------------------------------
SeqsUpTo(S, n) == UNION {[1 .. k -> S] : k \in 0 .. n}

Paths == {"old.ts", "a.md"}

NumstatLines ==
  {<<a, r, p>> : a \in {"5", "-"}, r \in {"3", "-"}, p \in Paths}
    \cup {<<"garbage">>, <<"5", "3">>, BlankLine}

NameStatusLines ==
  {<<st, p>> : st \in {"M", "A", "D", "T"}, p \in Paths}
    \cup {<<"R100", p, "new.ts">> : p \in Paths}
    \cup {<<"R100", "old.ts">>, <<"M">>, BlankLine}

LogLines ==
  {<<"abc123", "fix", "bug">>, <<"def456", "wip">>, <<"nospace">>,
   <<"", "indented">>, BlankLine}

\* the outputs of git diff --numstat and --name-status, or of git log --oneline
InitExtract ==
  /\ \/ \E ns \in SeqsUpTo(NumstatLines, MaxNumstatLines),
           st \in SeqsUpTo(NameStatusLines, MaxNameStatusLines) :
          raw = [numstat |-> ns, nameStatus |-> st, log |-> <<>>]
     \/ \E lg \in SeqsUpTo(LogLines, MaxLogLines) :
          raw = [numstat |-> <<>>, nameStatus |-> <<>>, log |-> lg]
  /\ ExtractResultsIdle
  /\ PlannerIdle
  /\ QuizIdle
  /\ DebtIdle
  /\ ContextIdle

ParseNumstat ==
  /\ step = "none"
  /\ numstatFiles' = parseNumstat(raw.numstat)
  /\ step' = "parseNumstat"
  /\ UNCHANGED <<raw, nameStatusMap, files, diffStats, commits, complexity,
                 groups>>
  /\ UNCHANGED <<plannerVars, quizVars, contextVars, debtVars>>

ParseNameStatus ==
  /\ step = "parseNumstat"
  /\ nameStatusMap' = parseNameStatus(raw.nameStatus)
  /\ step' = "parseNameStatus"
  /\ UNCHANGED <<raw, numstatFiles, files, diffStats, commits, complexity,
                 groups>>
  /\ UNCHANGED <<plannerVars, quizVars, contextVars, debtVars>>

MergeFileData ==
  /\ step = "parseNameStatus"
  /\ files' = mergeFileData(numstatFiles, nameStatusMap)
  /\ step' = "mergeFileData"
  /\ UNCHANGED <<raw, numstatFiles, nameStatusMap, diffStats, commits, complexity,
                 groups>>
  /\ UNCHANGED <<plannerVars, quizVars, contextVars, debtVars>>

CalculateStats ==
  /\ step = "mergeFileData"
  /\ LET r == calculateStats(files)
     IN  /\ diffStats' = r.ret
         /\ files' = r.arg
  /\ step' = "calculateStats"
  /\ UNCHANGED <<raw, numstatFiles, nameStatusMap, commits, complexity, groups>>
  /\ UNCHANGED <<plannerVars, quizVars, contextVars, debtVars>>

ParseCommitLog ==
  /\ step = "none"
  /\ commits' = parseCommitLog(raw.log)
  /\ step' = "parseCommitLog"
  /\ UNCHANGED <<raw, numstatFiles, nameStatusMap, files, diffStats, complexity,
                 groups>>
  /\ UNCHANGED <<plannerVars, quizVars, contextVars, debtVars>>

NextExtract ==
  \/ ParseNumstat
  \/ ParseNameStatus
  \/ MergeFileData
  \/ CalculateStats
  \/ ParseCommitLog

SpecExtract == InitExtract /\ [][NextExtract]_vars

\* ------------------------------------------------------------------------
\* Complexity of a change set (src/doi/git/extract.ts)
\* ------------------------------------------------------------------------
\* file names with pairwise distinct extensions
FileNames == <<"a.ts", "b.md", "c.png", "d.json", "e.css", "Makefile", "g.">>

\* f.path.split('.').pop() || ''
ExtensionOf(path) ==
  CASE path = "a.ts" -> "ts"
    [] path = "b.md" -> "md"
    [] path = "c.png" -> "png"
    [] path = "d.json" -> "json"
    [] path = "e.css" -> "css"
    [] path = "Makefile" -> "Makefile"
    [] path = "g." -> ""
    [] path = "old.ts" -> "ts"
    [] path = "a.md" -> "md"
    [] OTHER -> ""

calculateComplexityChurnUncapped(fs, st) ==
  IF st.linesAdded.kind # "finite" \/ st.linesRemoved.kind # "finite"
  THEN NaN
  ELSE LET a == st.linesAdded.val
           r == st.linesRemoved.val
           m == Max(a, 1)
           D == 20 * m
           extensions == {ExtensionOf(fs[i].path) : i \in 1 .. Len(fs)}
           fileScore == Min(25 * D, 50 * Len(fs) * m)
           lineScore == Min(25 * D, (a + r) * m)
           extScore == Min(25 * D, 5 * Cardinality(extensions) * D)
           churn == IF a > 0 THEN 300 * r ELSE 0
           N == fileScore + lineScore + extScore + churn
       IN  Finite(Min(100, (2 * N + D) \div (2 * D)))

\* The score is a sum of fractions with denominators 2, 20 and linesAdded;
\* it is computed here over the common denominator D = 20 * linesAdded
\* (D = 20 when linesAdded = 0) and rounded half up as Math.round does.  A
\* NaN line total makes the score NaN.
calculateComplexity(fs, st) ==
  IF st.linesAdded.kind # "finite" \/ st.linesRemoved.kind # "finite"
  THEN NaN
  ELSE LET a == st.linesAdded.val
           r == st.linesRemoved.val
           m == Max(a, 1)
           D == 20 * m
           extensions == {ExtensionOf(fs[i].path) : i \in 1 .. Len(fs)}
           fileScore == Min(25 * D, 50 * Len(fs) * m)
           lineScore == Min(25 * D, (a + r) * m)
           extScore == Min(25 * D, 5 * Cardinality(extensions) * D)
           churn == IF a > 0 THEN Min(25 * D, 300 * r) ELSE 0
           N == fileScore + lineScore + extScore + churn
       IN  Finite(Min(100, (2 * N + D) \div (2 * D)))

\* a list of n files over the first e file names
FileList(n, e) ==
  [i \in 1 .. n |->
     [path |-> FileNames[IF i <= e THEN i ELSE 1], changeType |-> "modified",
      newPath |-> Undefined, linesAdded |-> Finite(0),
      linesRemoved |-> Finite(0)]]

FileLists ==
  {FileList(n, e) : n \in 0 .. MaxComplexityFiles, e \in 0 .. MaxExtensions}

LineCounts == (0 .. MaxSmallLines) \cup {20 * k : k \in 0 .. MaxLineBlocks}

\* every file list paired with every DiffStats over the sampled line counts
InitComplexity ==
  /\ raw = [numstat |-> <<>>, nameStatus |-> <<>>, log |-> <<>>]
  /\ numstatFiles = <<>>
  /\ nameStatusMap = <<>>
  /\ commits = <<>>
  /\ step = "none"
  /\ complexity = Finite(0)
  /\ groups = {}
  /\ files \in FileLists
  /\ \E a \in LineCounts, r \in LineCounts :
       diffStats = [filesChanged |-> Len(files), linesAdded |-> Finite(a),
                    linesRemoved |-> Finite(r), netChange |-> Finite(a - r)]
  /\ PlannerIdle
  /\ QuizIdle
  /\ DebtIdle
  /\ ContextIdle

CalculateComplexity ==
  /\ step = "none"
  /\ complexity' = calculateComplexity(files, diffStats)
  /\ step' = "calculateComplexity"
  /\ UNCHANGED <<raw, numstatFiles, nameStatusMap, files, diffStats, commits,
                 groups>>
  /\ UNCHANGED <<plannerVars, quizVars, contextVars, debtVars>>

NextComplexity == CalculateComplexity

SpecComplexity == InitComplexity /\ [][NextComplexity]_vars

\* ------------------------------------------------------------------------
\* Validation of the git context (src/doi/git/extract.ts)
\* ------------------------------------------------------------------------
\* truthiness of an optional string
Truthy(str) == str # Undefined /\ str # ""

validateContextChangesFirst(ctx) ==
  IF Truthy(ctx.error)
  THEN [isValid |-> FALSE, hasError |-> TRUE, error |-> <<ctx.error>>]
  ELSE IF ~Truthy(ctx.currentBranch)
  THEN [isValid |-> FALSE, hasError |-> TRUE,
        error |-> <<"Could not determine current branch">>]
  ELSE IF ~ctx.hasChanges
  THEN [isValid |-> FALSE, hasError |-> TRUE,
        error |-> <<"No changes found between current branch and ",
                    ctx.defaultBranch, ". Nothing to analyze.">>]
  ELSE IF ctx.currentBranch = ctx.defaultBranch
  THEN [isValid |-> FALSE, hasError |-> TRUE,
        error |-> <<"Already on ", ctx.defaultBranch,
                    " branch. Switch to a feature branch to analyze changes.">>]
  ELSE [isValid |-> TRUE, hasError |-> FALSE, error |-> <<>>]

validateContext(ctx) ==
  IF Truthy(ctx.error)
  THEN [isValid |-> FALSE, hasError |-> TRUE, error |-> <<ctx.error>>]
  ELSE IF ~Truthy(ctx.currentBranch)
  THEN [isValid |-> FALSE, hasError |-> TRUE,
        error |-> <<"Could not determine current branch">>]
  ELSE IF ctx.currentBranch = ctx.defaultBranch
  THEN [isValid |-> FALSE, hasError |-> TRUE,
        error |-> <<"Already on ", ctx.defaultBranch,
                    " branch. Switch to a feature branch to analyze changes.">>]
  ELSE IF ~ctx.hasChanges
  THEN [isValid |-> FALSE, hasError |-> TRUE,
        error |-> <<"No changes found between current branch and ",
                    ctx.defaultBranch, ". Nothing to analyze.">>]
  ELSE [isValid |-> TRUE, hasError |-> FALSE, error |-> <<>>]

CurrentBranches == {"", "main", "develop", "feature/x"}
DefaultBranches == {"", "main", "develop"}
ContextErrors == {Undefined, "", "Not a git repository"}

InitContext ==
  /\ \E cur \in CurrentBranches, def \in DefaultBranches,
        ch \in BOOLEAN, err \in ContextErrors :
       context = [currentBranch |-> cur, defaultBranch |-> def,
                  hasChanges |-> ch, error |-> err]
  /\ validation = NoValidation
  /\ step = "none"
  /\ raw = [numstat |-> <<>>, nameStatus |-> <<>>, log |-> <<>>]
  /\ numstatFiles = <<>>
  /\ nameStatusMap = <<>>
  /\ files = <<>>
  /\ diffStats = NoDiffStats
  /\ commits = <<>>
  /\ complexity = Finite(0)
  /\ groups = {}
  /\ PlannerIdle
  /\ QuizIdle
  /\ DebtIdle

ValidateContext ==
  /\ step = "none"
  /\ validation' = validateContext(context)
  /\ step' = "validateContext"
  /\ UNCHANGED <<context, raw, numstatFiles, nameStatusMap, files, diffStats,
                 commits, complexity, groups>>
  /\ UNCHANGED <<plannerVars, quizVars, debtVars>>

NextContext == ValidateContext

SpecContext == InitContext /\ [][NextContext]_vars

\* ------------------------------------------------------------------------
\* The empty question set (src/doi/questions/generate.ts)
\* ------------------------------------------------------------------------
\* default values of the parameters of calculateRecommendedQuestionCount
DefaultMinQuestions == 2
DefaultMaxQuestions == 10

\* the four factors of the score; the lines factor is totalLines / 20 and
\* is kept as its numerator over 20
linesFactorTimes20(sum) == Min(600, TotalLines(sum.stats))
filesFactor(sum) == Min(20, 2 * sum.filesChanged)
varietyFactor(sum) == 5 * Cardinality(sum.changes)
keyFilesFactor(sum) == Min(25, 5 * sum.keyFiles)

\* the four factors are summed over the denominator 20 and rounded half up
calculateComplexityScore(sum) ==
  LET N == linesFactorTimes20(sum)
             + 20 * (filesFactor(sum) + varietyFactor(sum) + keyFilesFactor(sum))
  IN  Min(100, (2 * N + 20) \div 40)

createEmptyQuestionSet(sum) ==
  [questions |-> <<>>,
   recommendedCount |->
     calculateRecommendedQuestionCount(sum, DefaultMinQuestions,
                                       DefaultMaxQuestions),
   complexityScore |-> calculateComplexityScore(sum)]

\* every sampled summary under every configured pair of bounds
InitSet ==
  /\ \E la \in LineSamples, lr \in 0 .. MaxLinesRemoved,
        ch \in ChangeSets, nf \in FileCounts, kf \in 0 .. MaxKeyFiles :
       summary = [stats |-> [linesAdded |-> la, linesRemoved |-> lr],
                  changes |-> ch, filesChanged |-> nf, keyFiles |-> kf]
  /\ \E p \in BoundPairs : minQuestions = p[1] /\ maxQuestions = p[2]
  /\ PlannerResultsIdle
  /\ QuizIdle
  /\ DebtIdle
  /\ ExtractIdle
  /\ ContextIdle

CreateEmptyQuestionSet ==
  /\ call = "none"
  /\ call' = "createEmptyQuestionSet"
  /\ questionSet' = createEmptyQuestionSet(summary)
  /\ UNCHANGED <<summary, minQuestions, maxQuestions, planTotal, result,
                 distribution, previous>>
  /\ UNCHANGED <<quizVars, extractVars, contextVars, debtVars>>

NextSet == CreateEmptyQuestionSet

SpecSet == InitSet /\ [][NextSet]_vars

\* every sampled summary with any number of distinct change categories and
\* key files
InitScore ==
  /\ \E la \in LineSamples, ch \in SUBSET ChangeCategory, nf \in FileCounts,
        kf \in 0 .. MaxScoreKeyFiles :
       summary = [stats |-> [linesAdded |-> la, linesRemoved |-> 0],
                  changes |-> ch, filesChanged |-> nf, keyFiles |-> kf]
  /\ minQuestions = DEFAULT_CONFIG.minQuestions
  /\ maxQuestions = DEFAULT_CONFIG.maxQuestions
  /\ PlannerResultsIdle
  /\ QuizIdle
  /\ DebtIdle
  /\ ExtractIdle
  /\ ContextIdle

SpecScore == InitScore /\ [][NextSet]_vars

\* ------------------------------------------------------------------------
\* The plan of a summary with its advisory text, computed repeatedly
\* ------------------------------------------------------------------------
AdvisoryTexts == {"", "fixes a bug"}

\* every sampled summary with every overview and inferred intent
InitPlan ==
  /\ \E la \in LineSamples, ch \in ChangeSets, nf \in FileCounts,
        o \in AdvisoryTexts, i \in AdvisoryTexts :
       summary = [stats |-> [linesAdded |-> la, linesRemoved |-> 0],
                  changes |-> ch, filesChanged |-> nf, keyFiles |-> 0,
                  overview |-> o, inferredIntent |-> i]
  /\ minQuestions = DEFAULT_CONFIG.minQuestions
  /\ maxQuestions = DEFAULT_CONFIG.maxQuestions
  /\ planTotal \in 0 .. MaxPlanTotal
  /\ call = "none"
  /\ result = 0
  /\ distribution = NoDistribution
  /\ questionSet = NoQuestionSet
  /\ previous = NoPrevious
  /\ QuizIdle
  /\ DebtIdle
  /\ ExtractIdle
  /\ ContextIdle

\* what the last planner call was and returned
LastCall == [call |-> call, result |-> result, distribution |-> distribution]

PlanCount ==
  /\ call' = "calculateRecommendedQuestionCount"
  /\ result' = calculateRecommendedQuestionCount(summary, minQuestions, maxQuestions)
  /\ previous' = LastCall
  /\ UNCHANGED <<summary, minQuestions, maxQuestions, planTotal, distribution,
                 questionSet>>
  /\ UNCHANGED <<quizVars, extractVars, contextVars, debtVars>>

PlanDistribution ==
  /\ call' = "distributeQuestionCategories"
  /\ distribution' = distributeQuestionCategories(planTotal, summary)
  /\ previous' = LastCall
  /\ UNCHANGED <<summary, minQuestions, maxQuestions, planTotal, result,
                 questionSet>>
  /\ UNCHANGED <<quizVars, extractVars, contextVars, debtVars>>

NextPlan == PlanCount \/ PlanDistribution

SpecPlan == InitPlan /\ [][NextPlan]_vars

\* ------------------------------------------------------------------------
\* Vibe-debt record: built at the end of a session, rewritten or deleted
\* by remediation passes
\* ------------------------------------------------------------------------
\* the statuses a stored question can have, without 'revealed'
VibeDebtStatusNoRevealed == {"skipped", "incorrect"}

\* VibeDebtQuestion.status
VibeDebtStatus == {"skipped", "incorrect", "revealed"}

IsDebt(q) == q.status \in VibeDebtStatus

\* the questions of qs that are debt, in order, each with its position as id
Outstanding(qs) ==
  SelectSeq([i \in 1 .. Len(qs) |-> [id |-> i, status |-> qs[i]]], IsDebt)

RECURSIVE statsAfter(_, _)
\* the QuizStats after the first k verdicts of vs
statsAfter(vs, k) ==
  IF k = 0 THEN createInitialStats(Len(vs))
  ELSE updateStats(statsAfter(vs, k - 1), vs[k]).ret

StatsOf(vs) == statsAfter(vs, Len(vs))

\* the stored record for a list of outstanding questions
RecordOf(debt) ==
  IF debt = <<>>
  THEN [NoRecord EXCEPT !.saved = TRUE]
  ELSE [saved |-> TRUE, exists |-> TRUE, vibeDebt |-> debt,
        stats |-> StatsOf([i \in 1 .. Len(debt) |-> debt[i].status])]

\* every finished session of up to MaxDebtQuestions questions
InitDebt ==
  /\ \E n \in 0 .. MaxDebtQuestions : questions \in [1 .. n -> Verdicts]
  /\ phase = "Finished"
  /\ stats = StatsOf(questions)
  /\ last = NoLast
  /\ record = NoRecord
  /\ PlannerIdle
  /\ ExtractIdle
  /\ ContextIdle

\* end of the session: the record is written unless no question is debt
CreateVibeDebtRecord ==
  /\ phase = "Finished"
  /\ ~record.saved
  /\ record' = IF Outstanding(questions) = <<>>
               THEN [NoRecord EXCEPT !.saved = TRUE]
               ELSE [saved |-> TRUE, exists |-> TRUE,
                     vibeDebt |-> Outstanding(questions), stats |-> stats]
  /\ UNCHANGED <<questions, quizVars>>
  /\ UNCHANGED <<plannerVars, extractVars, contextVars>>

\* a remediation pass: every stored question gets a new verdict; the record
\* is rewritten with the questions still outstanding, or deleted
Remediate ==
  /\ record.exists
  /\ \E verdicts \in [1 .. Len(record.vibeDebt) -> Verdicts] :
       LET ids == {record.vibeDebt[j].id : j \in 1 .. Len(record.vibeDebt)}
           pos(i) == CHOOSE j \in 1 .. Len(record.vibeDebt) :
                       record.vibeDebt[j].id = i
           answered == [i \in 1 .. Len(questions) |->
                          IF i \in ids THEN verdicts[pos(i)] ELSE questions[i]]
       IN  /\ questions' = answered
           /\ record' = RecordOf(Outstanding(answered))
  /\ UNCHANGED quizVars
  /\ UNCHANGED <<plannerVars, extractVars, contextVars>>

NextDebt == CreateVibeDebtRecord \/ Remediate

SpecDebt == InitDebt /\ [][NextDebt]_vars

\* ------------------------------------------------------------------------
\* Classification of the changed files into CategorizedChange groups
\* ------------------------------------------------------------------------
ClassPaths ==
  <<"package.json", "test/jest.config.js", "src/a.test.ts", "README.md",
    "src/a.ts">>

\* the file-path heuristics
IsConfigPath(path) == path \in {"package.json", "test/jest.config.js"}
IsTestPath(path) == path \in {"test/jest.config.js", "src/a.test.ts"}
IsDocPath(path) == path \in {"README.md"}

\* the category of one file: the first rule that matches wins; balanced is
\* the outcome of the size and add/remove-band tests of rules 6 and 7
categoryOf(f, balanced) ==
  IF IsConfigPath(f.path) THEN "configuration"
  ELSE IF IsTestPath(f.path) THEN "testing"
  ELSE IF IsDocPath(f.path) THEN "documentation"
  ELSE IF f.changeType = "deleted" THEN "deletion"
  ELSE IF f.changeType = "added" THEN "new-feature"
  ELSE IF balanced /\ f.linesAdded.val > 0 /\ f.linesRemoved.val > 0
       THEN "refactoring"
  ELSE "modified-logic"

\* the files of fs that fall into category c
filesOf(fs, balanced, c) ==
  {fs[i].path : i \in {j \in 1 .. Len(fs) : categoryOf(fs[j], balanced[j]) = c}}

\* one group for each of the seven categories, also those without files
categorizeChangesKeepEmpty(fs, balanced) ==
  {[category |-> c, files |-> filesOf(fs, balanced, c)] : c \in ChangeCategory}

\* files sharing a category are merged into one group
categorizeChanges(fs, balanced) ==
  {[category |-> c, files |-> filesOf(fs, balanced, c)] :
     c \in {d \in ChangeCategory : filesOf(fs, balanced, d) # {}}}

RECURSIVE SortedSeq(_)
\* the elements of a set of integers in increasing order
SortedSeq(S) ==
  IF S = {} THEN <<>>
  ELSE LET m == CHOOSE x \in S : \A y \in S : x <= y
       IN  <<m>> \o SortedSeq(S \ {m})

ChangeTypes == {"added", "modified", "deleted", "renamed"}

\* every list of up to MaxClassFiles files with distinct paths
InitClassify ==
  /\ \E S \in {T \in SUBSET (1 .. Len(ClassPaths)) : Cardinality(T) <= MaxClassFiles} :
       \E ct \in [S -> ChangeTypes], rm \in [S -> {0, 3}] :
         files = [k \in 1 .. Cardinality(S) |->
                    LET i == SortedSeq(S)[k]
                    IN  [path |-> ClassPaths[i], changeType |-> ct[i],
                         newPath |-> IF ct[i] = "renamed" THEN "new.ts"
                                     ELSE Undefined,
                         linesAdded |-> Finite(5),
                         linesRemoved |-> Finite(rm[i])]]
  /\ raw = [numstat |-> <<>>, nameStatus |-> <<>>, log |-> <<>>]
  /\ numstatFiles = <<>>
  /\ nameStatusMap = <<>>
  /\ diffStats = NoDiffStats
  /\ commits = <<>>
  /\ step = "none"
  /\ complexity = Finite(0)
  /\ groups = {}
  /\ PlannerIdle
  /\ QuizIdle
  /\ DebtIdle
  /\ ContextIdle

CategorizeChanges ==
  /\ step = "none"
  /\ \E balanced \in [1 .. Len(files) -> BOOLEAN] :
       groups' = categorizeChanges(files, balanced)
  /\ step' = "categorizeChanges"
  /\ UNCHANGED <<raw, numstatFiles, nameStatusMap, files, diffStats, commits,
                 complexity>>
  /\ UNCHANGED <<plannerVars, quizVars, contextVars, debtVars>>

NextClassify == CategorizeChanges

SpecClassify == InitClassify /\ [][NextClassify]_vars

\* ========================================================================
\* Properties
\* ========================================================================
SumOf(d) == d["why"] + d["how"] + d["what-if"] + d["impact"]

\* C1: for every total n >= 0 and every summary, the four values returned by
\* distributeQuestionCategories are non-negative and sum exactly to n.
C1_DistributionSumsToTotal ==
  call = "distributeQuestionCategories" =>
    /\ \A c \in QuestionCategory : distribution[c] \in Nat
    /\ SumOf(distribution) = planTotal

\* a plan without logic, refactoring or deletion changes whose leftover is
\* folded back into "how"
C1_Witness ==
  /\ call = "distributeQuestionCategories"
  /\ planTotal = 10
  /\ summary.changes = {"configuration", "documentation"}
  /\ distribution["why"] = 3
  /\ distribution["how"] = 7

\* C2: in every session state correct + incorrect + skipped <= totalQuestions.
C2_AnsweredWithinTotal ==
  stats.correct + stats.incorrect + stats.skipped <= stats.totalQuestions

\* the last question of a session receives the verdict "revealed"
C2_Witness ==
  /\ last.fn = "updateStats"
  /\ last.verdict = "revealed"
  /\ stats.totalQuestions >= 3
  /\ stats.correct > 0
  /\ stats.skipped > 0
  /\ Answered(stats) = stats.totalQuestions

\* round-half-up of 100 * debt / total, for total > 0
RoundHalfUp(debt, total) == (200 * debt + total) \div (2 * total)

\* C3 (as claimed): vibeDebtPercent is always an integer in 0..100 equal to
\* round(100 * (incorrect + skipped) / totalQuestions) and never the result
\* of a division by zero, for every totalQuestions >= 0.
C3_PercentDefined ==
  /\ stats.vibeDebtPercent.kind = "finite"
  /\ stats.vibeDebtPercent.val \in 0 .. 100
  /\ stats.totalQuestions > 0 =>
       stats.vibeDebtPercent.val =
         RoundHalfUp(stats.incorrect + stats.skipped, stats.totalQuestions)

\* C4: the count returned by calculateQuestionCount and by
\* calculateRecommendedQuestionCount lies in [min, max] when min <= max.
C4_CountWithinBounds ==
  call \in {"calculateQuestionCount", "calculateRecommendedQuestionCount"} =>
    /\ minQuestions <= result
    /\ result <= maxQuestions

\* the table value exceeds the configured maximum and is cut down to it
C4_Witness ==
  /\ call = "calculateQuestionCount"
  /\ TotalLines(summary.stats) > 500
  /\ minQuestions < maxQuestions
  /\ maxQuestions < 8
  /\ result = maxQuestions

C6_PlannerEqualsTable ==
  (call = "calculateRecommendedQuestionCount"
     /\ hasLogicChanges(summary.changes)) =>
    result = calculateQuestionCount(summary.stats, minQuestions, maxQuestions)

\* the count table of the planner contract (section 4.3)
TableCount(t) ==
  IF t <= 50 THEN 2
  ELSE IF t <= 200 THEN 4 + ((t - 50) \div 50)
  ELSE IF t <= 500 THEN 6 + ((t - 200) \div 150)
  ELSE 8 + Min(2, (t - 500) \div 250)

\* C7 (as claimed): without a new-feature or modified-logic change the
\* planner's count is floor(0.6 * table value) clamped to [min, max]; a
\* configuration + documentation diff of 300 lines with bounds (2, 10) gets 3.
C7_NoLogicScaledTable ==
  (call = "calculateRecommendedQuestionCount"
     /\ ~hasLogicChanges(summary.changes)) =>
    result = Max(minQuestions,
                 Min(maxQuestions,
                     (6 * TableCount(TotalLines(summary.stats))) \div 10))

ZeroLines == summary.stats.linesAdded = 0 /\ summary.stats.linesRemoved = 0

\* C8 (as claimed): a diff with zero changed lines yields exactly the
\* configured minimum, and never 0.
C8_ZeroLinesExactlyMin ==
  (call \in {"calculateQuestionCount", "calculateRecommendedQuestionCount"}
     /\ ZeroLines) =>
    /\ result = minQuestions
    /\ result # 0

\* C8 (amended): a diff with zero changed lines yields a count in [min, max],
\* hence never 0 when min >= 1; it is exactly the configured minimum whenever
\* min >= 3, and for calculateQuestionCount already whenever min >= 2.
C8_ZeroLinesAtLeastMin ==
  (call \in {"calculateQuestionCount", "calculateRecommendedQuestionCount"}
     /\ ZeroLines) =>
    /\ minQuestions <= result
    /\ result <= maxQuestions
    /\ minQuestions >= 1 => result # 0
    /\ minQuestions >= 3 => result = minQuestions
    /\ (call = "calculateQuestionCount" /\ minQuestions >= 2) =>
         result = minQuestions

\* an empty diff under the default configuration
C8_Witness ==
  /\ call = "calculateQuestionCount"
  /\ ZeroLines
  /\ minQuestions = DEFAULT_CONFIG.minQuestions
  /\ maxQuestions = DEFAULT_CONFIG.maxQuestions
  /\ result = 2

\* C9: updateStats changes exactly one counter by +1 (correct for "correct",
\* incorrect for "incorrect" and "revealed", skipped for "skipped"), leaves
\* totalQuestions alone and does not mutate its argument.
C9_UpdateStatsOneCounter ==
  last.fn = "updateStats" =>
    LET b == last.before
        v == last.verdict
    IN  /\ stats.correct = b.correct + (IF v = "correct" THEN 1 ELSE 0)
        /\ stats.incorrect =
             b.incorrect + (IF v \in {"incorrect", "revealed"} THEN 1 ELSE 0)
        /\ stats.skipped = b.skipped + (IF v = "skipped" THEN 1 ELSE 0)
        /\ Answered(stats) = Answered(b) + 1
        /\ stats.totalQuestions = b.totalQuestions
        /\ last.argAfter = b

\* a "revealed" verdict after an earlier answer
C9_Witness ==
  /\ last.fn = "updateStats"
  /\ last.verdict = "revealed"
  /\ last.before.correct = 1
  /\ stats.incorrect = last.before.incorrect + 1
  /\ stats.correct = 1

\* C10: the skip-remaining signal adds every not-yet-answered question to
\* skipped in one step, leaves correct, incorrect and totalQuestions alone
\* and ends with correct + incorrect + skipped = totalQuestions; 6 questions
\* with 2 correct and 1 incorrect end with skipped 3 and vibeDebtPercent 67.
C10_SkipRemainingFillsTotal ==
  last.fn = "skipRemaining" =>
    LET b == last.before
    IN  /\ stats.skipped = b.skipped + (b.totalQuestions - Answered(b))
        /\ stats.correct = b.correct
        /\ stats.incorrect = b.incorrect
        /\ stats.totalQuestions = b.totalQuestions
        /\ Answered(stats) = stats.totalQuestions
        /\ (b.totalQuestions = 6 /\ b.correct = 2 /\ b.incorrect = 1
              /\ b.skipped = 0) =>
             /\ stats.skipped = 3
             /\ stats.vibeDebtPercent = Finite(67)

\* skip-all after one question was already skipped singly
C10_Witness ==
  /\ last.fn = "skipRemaining"
  /\ phase = "Finished"
  /\ last.before.skipped = 1
  /\ last.before.correct = 2
  /\ last.before.incorrect = 1
  /\ stats.totalQuestions = 6
  /\ stats.skipped = 3

\* C11 (as claimed): a verdict applied once every question is scored or
\* skipped is reported as an error and leaves QuizStats unchanged.
C11_RescoreRejected ==
  (last.fn = "updateStats"
     /\ Answered(last.before) >= last.before.totalQuestions) =>
    /\ last.error
    /\ stats = last.before

PhaseRank(p) ==
  CASE p = "NotStarted" -> 0
    [] p = "InProgress" -> 1
    [] OTHER -> 2

\* C12: given a verdict for each presented question, every session reaches
\* Finished; it does so at the skip-all signal or after exactly
\* totalQuestions single verdicts, the states are passed in the order
\* NotStarted, InProgress, Finished and Finished is never left.
C12_SessionFinishes ==
  /\ <>(phase = "Finished")
  /\ [][PhaseRank(phase') >= PhaseRank(phase)]_vars
  /\ [][phase = "NotStarted" => phase' # "Finished"]_vars
  /\ [](last.fn = "skipRemaining" => phase = "Finished")
  /\ []((phase = "Finished" /\ last.fn # "skipRemaining") =>
          Answered(stats) = stats.totalQuestions)
  /\ [][(phase = "InProgress" /\ phase' = "Finished") =>
          \/ last'.fn = "skipRemaining"
          \/ stats' = stats /\ Answered(stats) = stats.totalQuestions]_vars

\* a session of three questions finished by its third verdict
C12_Witness ==
  /\ phase = "Finished"
  /\ last.fn = "updateStats"
  /\ stats.totalQuestions = 3
  /\ Answered(stats) = 3

\* q = ceil(num * n / den), for n >= 0
IsCeilOf(q, n, num, den) == den * q >= num * n /\ den * (q - 1) < num * n

\* C13: why = ceil(0.25 n); with a new-feature or modified-logic change
\* how starts as ceil(0.4 (n - why)) and what-if is ceil(0.5 (n - why - how)),
\* otherwise both start at 0; the leftover goes to impact when a refactoring,
\* deletion or modified-logic change exists and is otherwise added to how,
\* with impact = 0.
C13_DistributionFormula ==
  call = "distributeQuestionCategories" =>
    LET ch == summary.changes
        n == planTotal
        why == distribution["why"]
        whatIf == distribution["what-if"]
        impact == distribution["impact"]
        logic == "new-feature" \in ch \/ "modified-logic" \in ch
        toImpact == "refactoring" \in ch \/ "deletion" \in ch
                      \/ "modified-logic" \in ch
    IN  /\ IsCeilOf(why, n, 1, 4)
        /\ toImpact =>
             /\ impact = n - why - distribution["how"] - whatIf
             /\ logic => /\ IsCeilOf(distribution["how"], n - why, 2, 5)
                         /\ IsCeilOf(whatIf, n - why - distribution["how"], 1, 2)
             /\ ~logic => distribution["how"] = 0 /\ whatIf = 0
        /\ ~toImpact =>
             /\ impact = 0
             /\ ~logic => whatIf = 0 /\ distribution["how"] = n - why
             /\ logic =>
                  \E h \in 0 .. n :
                    /\ IsCeilOf(h, n - why, 2, 5)
                    /\ IsCeilOf(whatIf, n - why - h, 1, 2)
                    /\ distribution["how"] = h + (n - why - h - whatIf)

\* a new feature without refactoring, deletion or modified logic: the
\* leftover of 2 is added to the 3 "how" questions
C13_Witness ==
  /\ call = "distributeQuestionCategories"
  /\ planTotal = 10
  /\ summary.changes = {"new-feature"}
  /\ distribution["why"] = 3
  /\ distribution["how"] = 5
  /\ distribution["what-if"] = 2
  /\ distribution["impact"] = 0

Merged == step \in {"mergeFileData", "calculateStats"}

\* number of records of fs whose path is p
CountPath(fs, p) == Cardinality({i \in 1 .. Len(fs) : fs[i].path = p})

\* C14: for every path in both results mergeFileData yields the record with
\* the line counts of numeric-stat and the changeType and newPath of
\* name-status; a rename line is keyed by its old path: "R100 old.ts new.ts"
\* merged with "5 3 old.ts" yields the single record old.ts, renamed, new.ts,
\* 5, 3.
C14_MergeTakesCountsAndType ==
  Merged =>
    /\ \A i \in 1 .. Len(files) :
         files[i].path \in DOMAIN nameStatusMap =>
           /\ files[i].path = numstatFiles[i].path
           /\ files[i].linesAdded = numstatFiles[i].linesAdded
           /\ files[i].linesRemoved = numstatFiles[i].linesRemoved
           /\ files[i].changeType = nameStatusMap[files[i].path].type
           /\ files[i].newPath = nameStatusMap[files[i].path].newPath
    /\ \A p \in DOMAIN nameStatusMap :
         CountPath(files, p) = CountPath(numstatFiles, p)
    /\ \A o \in Paths :
         raw.nameStatus = <<(<<"R100", o, "new.ts">>)>> =>
           nameStatusMap = [k \in {o} |-> [type |-> "renamed", newPath |-> "new.ts"]]
    /\ (raw.nameStatus = <<(<<"R100", "old.ts", "new.ts">>)>>
          /\ raw.numstat = <<(<<"5", "3", "old.ts">>)>>) =>
         files = <<[path |-> "old.ts", changeType |-> "renamed",
                    newPath |-> "new.ts", linesAdded |-> Finite(5),
                    linesRemoved |-> Finite(3)]>>

\* the rename scenario, after an unrelated name-status line
C14_Witness ==
  /\ step = "mergeFileData"
  /\ raw.nameStatus = <<(<<"M", "a.md">>), (<<"R100", "old.ts", "new.ts">>)>>
  /\ raw.numstat = <<(<<"5", "3", "old.ts">>)>>
  /\ Len(files) = 1
  /\ files[1].changeType = "renamed"
  /\ files[1].newPath = "new.ts"
  /\ files[1].linesAdded = Finite(5)

\* well-formed lines of the three formats
WellFormedNumstat(line) == Len(line) = 3
WellFormedNameStatus(line) ==
  IF StartsWithR(line[1]) THEN Len(line) = 3 ELSE Len(line) = 2
WellFormedLog(line) == Len(line) >= 2 /\ line[1] # ""

\* C15 (as claimed): in each of parseNumstat, parseNameStatus and
\* parseCommitLog a malformed non-blank line contributes no record or map
\* entry and every well-formed line of the same input yields its record.
C15_MalformedLinesSkipped ==
  /\ step = "parseNumstat" =>
       LET good == SelectSeq(raw.numstat, WellFormedNumstat)
       IN  /\ Len(numstatFiles) = Len(good)
           /\ \A i \in 1 .. Len(good) : numstatFiles[i].path = good[i][3]
  /\ step = "parseNameStatus" =>
       LET good == SelectSeq(raw.nameStatus, WellFormedNameStatus)
       IN  DOMAIN nameStatusMap = {good[i][2] : i \in 1 .. Len(good)}
  /\ step = "parseCommitLog" =>
       LET good == SelectSeq(raw.log, WellFormedLog)
       IN  /\ Len(commits) = Len(good)
           /\ \A i \in 1 .. Len(good) : commits[i].sha = good[i][1]

RECURSIVE SumVals(_)
SumVals(q) == IF q = <<>> THEN 0 ELSE SumVals(Tail(q)) + Head(q).val

AllFinite(q) == \A i \in 1 .. Len(q) : q[i].kind = "finite"

\* the total of a list of JavaScript numbers
TotalOf(q) == IF AllFinite(q) THEN Finite(SumVals(q)) ELSE NaN

\* C17: calculateStats returns filesChanged = number of records, linesAdded
\* and linesRemoved = the sums over the records, netChange = linesAdded -
\* linesRemoved (possibly negative), and leaves the input list as it was.
C17_StatsAreSums ==
  step = "calculateStats" =>
    LET input == mergeFileData(numstatFiles, nameStatusMap)
        added == [i \in 1 .. Len(input) |-> input[i].linesAdded]
        removed == [i \in 1 .. Len(input) |-> input[i].linesRemoved]
    IN  /\ diffStats.filesChanged = Len(input)
        /\ diffStats.linesAdded = TotalOf(added)
        /\ diffStats.linesRemoved = TotalOf(removed)
        /\ (AllFinite(added) /\ AllFinite(removed)) =>
             /\ diffStats.netChange.kind = "finite"
             /\ diffStats.netChange.val = SumVals(added) - SumVals(removed)
        /\ files = input

\* two files, more lines removed than added
C17_Witness ==
  /\ step = "calculateStats"
  /\ diffStats.filesChanged = 2
  /\ diffStats.linesAdded = Finite(5)
  /\ diffStats.linesRemoved = Finite(6)
  /\ diffStats.netChange = Finite(-1)

\* C18 (as claimed): every merged record has changeType = renamed only with
\* newPath set, and newPath set only when changeType = renamed, also for
\* rename lines with a missing field.
C18_RenamedHasNewPath ==
  Merged =>
    \A i \in 1 .. Len(files) :
      /\ files[i].changeType = "renamed" => files[i].newPath # Undefined
      /\ files[i].newPath # Undefined => files[i].changeType = "renamed"

\* the four sub-scores of the claimed formula, as numerators over 20 * m
\* where m = linesAdded, or 1 when linesAdded = 0
ClaimedScoreTimes(fs, a, r, m) ==
  LET exts == Cardinality({ExtensionOf(fs[i].path) : i \in 1 .. Len(fs)})
      halfFiles == Min(50, 5 * Len(fs))
      twentiethLines == Min(500, a + r)
      extPoints == Min(25, 5 * exts)
      churnTimesAdded == IF a > 0 THEN Min(25 * a, 15 * r) ELSE 0
  IN  10 * m * halfFiles + m * twentiethLines + 20 * m * extPoints
        + 20 * churnTimesAdded

\* C16: calculateComplexity is min(100, round(min(25, 2.5 files) + min(25,
\* totalLines / 20) + min(25, 5 distinctExtensions) + churn)) with churn =
\* min(25, 15 removed / added) when added > 0 and 0 otherwise; the result is
\* an integer between 0 and 100.
C16_ComplexityFormula ==
  step = "calculateComplexity" =>
    LET a == diffStats.linesAdded.val
        r == diffStats.linesRemoved.val
        m == IF a > 0 THEN a ELSE 1
        S == ClaimedScoreTimes(files, a, r, m)
        c == complexity.val
    IN  /\ complexity.kind = "finite"
        /\ c \in 0 .. 100
        /\ \/ c = 100 /\ 2 * S + 20 * m >= 40 * m * 100
           \/ /\ c < 100
              /\ 40 * m * c <= 2 * S + 20 * m
              /\ 2 * S + 20 * m < 40 * m * (c + 1)

\* one file, nothing added, 30 lines removed: 2.5 + 1.5 + 5 + 0 rounds to 9
C16_Witness ==
  /\ step = "calculateComplexity"
  /\ Len(files) = 1
  /\ diffStats.linesAdded = Finite(0)
  /\ diffStats.linesRemoved = Finite(30)
  /\ complexity = Finite(9)

Validated == step = "validateContext"

Preconditions(ctx) ==
  <<~Truthy(ctx.error), ctx.currentBranch # "",
    ctx.currentBranch # ctx.defaultBranch, ctx.hasChanges>>

\* the first precondition of ctx that fails, 0 when all hold
FirstFailed(ctx) ==
  LET failed == {i \in 1 .. 4 : ~Preconditions(ctx)[i]}
  IN  IF failed = {} THEN 0
      ELSE CHOOSE i \in failed : \A j \in failed : i <= j

\* C19: validateContext returns isValid = true iff the context carries no
\* error, currentBranch is non-empty and differs from defaultBranch, and
\* hasChanges is true; otherwise isValid = false with a non-empty message
\* naming the first failed precondition in that order.
C19_ValidIffPreconditions ==
  Validated =>
    LET k == FirstFailed(context)
        msg == validation.error
    IN  /\ validation.isValid <=> k = 0
        /\ validation.isValid => ~validation.hasError
        /\ ~validation.isValid =>
             /\ validation.hasError
             /\ \E i \in 1 .. Len(msg) : msg[i] # ""
             /\ k = 1 => msg = <<context.error>>
             /\ k = 2 => msg = <<"Could not determine current branch">>
             /\ k = 3 => /\ msg[1] = "Already on "
                         /\ msg[2] = context.defaultBranch
             /\ k = 4 => /\ msg[1] = "No changes found between current branch and "
                         /\ msg[2] = context.defaultBranch

\* on the default branch with no changes: the branch message wins
C19_Witness ==
  /\ Validated
  /\ context.error = Undefined
  /\ context.currentBranch = "main"
  /\ context.defaultBranch = "main"
  /\ ~context.hasChanges
  /\ ~validation.isValid
  /\ validation.error[1] = "Already on "

\* C20 (as claimed): the recommendedCount of createEmptyQuestionSet lies in
\* the configured range [minQuestions, maxQuestions].
C20_RecommendedWithinConfigured ==
  call = "createEmptyQuestionSet" =>
    /\ minQuestions <= questionSet.recommendedCount
    /\ questionSet.recommendedCount <= maxQuestions

\* the summary with its advisory text replaced
WithAdvisory(sum, o, i) == [sum EXCEPT !.overview = o, !.inferredIntent = i]

NotCorrect(qs) == {i \in 1 .. Len(qs) : qs[i] # "correct"}

StoredIds(rec) == {rec.vibeDebt[j].id : j \in 1 .. Len(rec.vibeDebt)}

\* C22: once the session's record has been built, and after every
\* remediation pass, a record exists iff some question is still not answered
\* correctly, and its vibeDebt list holds exactly those questions, each once,
\* with status incorrect, revealed or skipped; a pass that resolves all 3
\* questions of a record deletes it and one that resolves 2 of 3 leaves a
\* record of exactly 1 question.
C22_RecordHoldsOutstanding ==
  /\ [](record.saved =>
          /\ record.exists <=> NotCorrect(questions) # {}
          /\ StoredIds(record) = NotCorrect(questions)
          /\ Len(record.vibeDebt) = Cardinality(NotCorrect(questions))
          /\ \A j \in 1 .. Len(record.vibeDebt) :
               /\ record.vibeDebt[j].status = questions[record.vibeDebt[j].id]
               /\ record.vibeDebt[j].status \in {"incorrect", "revealed", "skipped"})
  /\ [][(record.exists /\ Len(record.vibeDebt) = 3) =>
          LET resolved == {i \in StoredIds(record) : questions'[i] = "correct"}
          IN  /\ Cardinality(resolved) = 3 => ~record'.exists
              /\ Cardinality(resolved) = 2 =>
                   record'.exists /\ Len(record'.vibeDebt) = 1]_vars

\* a record of one question left after two of its three were resolved
C22_Witness ==
  /\ record.saved
  /\ record.exists
  /\ Len(record.vibeDebt) = 1
  /\ record.stats.totalQuestions = 1
  /\ questions = <<"correct", "revealed", "correct">>

FilePaths(fs) == {fs[i].path : i \in 1 .. Len(fs)}

\* C23: the groups produced by classification partition the file set: every
\* changed path is in the files of exactly one group, no group is empty and
\* no group holds a path that is not in the diff.
C23_GroupsPartitionFiles ==
  step = "categorizeChanges" =>
    /\ \A p \in FilePaths(files) :
         Cardinality({g \in groups : p \in g.files}) = 1
    /\ \A g \in groups : g.files # {} /\ g.files \subseteq FilePaths(files)

\* a deleted test file beside two changed build files
C23_Witness ==
  /\ step = "categorizeChanges"
  /\ [category |-> "testing", files |-> {"src/a.test.ts"}] \in groups
  /\ [category |-> "configuration",
      files |-> {"package.json", "test/jest.config.js"}] \in groups
  /\ Cardinality(groups) = 2
  /\ files[3].changeType = "deleted"

\* C24 (as claimed): with the default bounds, which change no value of
\* 2..10, calculateQuestionCount gives 4..6 for 51..200 total lines, 6..8 for
\* 201..500 and 8..10 above 500.
C24_BranchWithinDocumentedRange ==
  call = "calculateQuestionCount" =>
    LET t == TotalLines(summary.stats)
    IN  /\ (51 <= t /\ t <= 200) => result \in 4 .. 6
        /\ (201 <= t /\ t <= 500) => result \in 6 .. 8
        /\ t > 500 => result \in 8 .. 10
        /\ result \in 2 .. 10

\* C25 (as claimed): in calculateComplexityScore the lines factor is within
\* 0..30, the files factor within 0..20, the change-variety factor within
\* 0..25 and the key-files factor within 0..25, and the score is an integer
\* in 0..100.
C25_FactorsWithinDocumentedRange ==
  call = "createEmptyQuestionSet" =>
    /\ linesFactorTimes20(summary) \in 0 .. 600
    /\ filesFactor(summary) \in 0 .. 20
    /\ varietyFactor(summary) \in 0 .. 25
    /\ keyFilesFactor(summary) \in 0 .. 25
    /\ questionSet.complexityScore \in 0 .. 100

\* C26 (as claimed): every record of parseNumstat has changeType modified, a
\* '-' count is recorded as 0, and linesAdded and linesRemoved of every
\* record are non-negative integers.
C26_NumstatRecordsWellTyped ==
  step = "parseNumstat" =>
    LET lines == SelectSeq(raw.numstat, LAMBDA l : l # BlankLine)
    IN  \A i \in 1 .. Len(numstatFiles) :
          /\ numstatFiles[i].changeType = "modified"
          /\ numstatFiles[i].linesAdded.kind = "finite"
          /\ numstatFiles[i].linesAdded.val >= 0
          /\ numstatFiles[i].linesRemoved.kind = "finite"
          /\ numstatFiles[i].linesRemoved.val >= 0
          /\ (Len(lines[i]) >= 1 /\ lines[i][1] = "-") =>
               numstatFiles[i].linesAdded = Finite(0)
          /\ (Len(lines[i]) >= 2 /\ lines[i][2] = "-") =>
               numstatFiles[i].linesRemoved = Finite(0)

\* the summary with one line less added
OneLineLess(sum) == [sum EXCEPT !.stats.linesAdded = @ - 1]

\* C27 (as claimed): for fixed bounds, categories and file count the count
\* returned for a diff is at least the count returned for the diff with one
\* line less, for calculateQuestionCount and for
\* calculateRecommendedQuestionCount.
C27_CountMonotoneInLines ==
  summary.stats.linesAdded >= 1 =>
    /\ call = "calculateQuestionCount" =>
         calculateQuestionCount(OneLineLess(summary).stats, minQuestions,
                                maxQuestions) <= result
    /\ call = "calculateRecommendedQuestionCount" =>
         calculateRecommendedQuestionCount(OneLineLess(summary), minQuestions,
                                           maxQuestions) <= result

RECURSIVE skipTimes(_, _)
\* updateStats(., 'skipped') applied k times in a row
skipTimes(s, k) ==
  IF k = 0 THEN s ELSE updateStats(skipTimes(s, k - 1), "skipped").ret

\* C28: for every reachable stats with totalQuestions >= 1 and every k from
\* 0 to the number of questions not yet answered, skipRemaining(stats, k)
\* equals updateStats(., 'skipped') applied k times, in all five fields.
C28_SkipRemainingIsRepeatedSkip ==
  /\ stats.totalQuestions >= 1 =>
       \A k \in 0 .. (stats.totalQuestions - Answered(stats)) :
         skipRemaining(stats, k).ret = skipTimes(stats, k)
  /\ (last.fn = "skipRemaining" /\ last.before.totalQuestions >= 1) =>
       stats = skipTimes(last.before, last.remainingCount)

\* three questions skipped at once after one wrong answer out of five
C28_Witness ==
  /\ last.fn = "skipRemaining"
  /\ last.remainingCount = 3
  /\ last.before.incorrect = 1
  /\ last.before.correct = 1
  /\ stats.totalQuestions = 5
  /\ stats.skipped = 3
  /\ stats.vibeDebtPercent = Finite(80)

RECURSIVE applyAll(_, _)
\* updateStats applied for each verdict of vs in turn
applyAll(s, vs) ==
  IF vs = <<>> THEN s
  ELSE applyAll(updateStats(s, Head(vs)).ret, Tail(vs))

\* C29: applying the verdicts given so far in any other order from
\* createInitialStats(n), n >= 1, gives the same QuizStats, and incorrect is
\* the number of incorrect and revealed verdicts.
C29_StatsIndependentOfOrder ==
  (phase = "InProgress" /\ stats.totalQuestions >= 1
     /\ Answered(stats) = Len(questions)) =>
    /\ \A pi \in Permutations(1 .. Len(questions)) :
         applyAll(createInitialStats(stats.totalQuestions),
                  [i \in 1 .. Len(questions) |-> questions[pi[i]]]) = stats
    /\ stats.incorrect =
         Cardinality({i \in 1 .. Len(questions) :
                        questions[i] \in {"incorrect", "revealed"}})

\* a revealed, a correct and a wrong answer
C29_Witness ==
  /\ questions = <<"revealed", "correct", "incorrect">>
  /\ last.fn = "updateStats"
  /\ stats.totalQuestions = 3
  /\ stats.incorrect = 2
  /\ stats.correct = 1
  /\ stats.vibeDebtPercent = Finite(67)

\* C30: mergeFileData returns one record per numeric-stat record, in the
\* same order, with path, linesAdded and linesRemoved unchanged, and none for
\* a path only the name-status map has; the stats of the merged list are the
\* stats of the numeric-stat list.
C30_MergeKeepsNumstatRecords ==
  Merged =>
    /\ Len(files) = Len(numstatFiles)
    /\ \A i \in 1 .. Len(files) :
         /\ files[i].path = numstatFiles[i].path
         /\ files[i].linesAdded = numstatFiles[i].linesAdded
         /\ files[i].linesRemoved = numstatFiles[i].linesRemoved
    /\ \A p \in DOMAIN nameStatusMap :
         CountPath(numstatFiles, p) = 0 => CountPath(files, p) = 0
    /\ calculateStats(files).ret = calculateStats(numstatFiles).ret
    /\ step = "calculateStats" => diffStats = calculateStats(numstatFiles).ret

\* a file without name-status line beside a name-status line without file
C30_Witness ==
  /\ step = "calculateStats"
  /\ raw.numstat = <<(<<"5", "3", "a.md">>)>>
  /\ raw.nameStatus = <<(<<"D", "old.ts">>)>>
  /\ Len(files) = 1
  /\ files[1].changeType = "modified"
  /\ diffStats.linesAdded = Finite(5)
  /\ diffStats.filesChanged = 1

====
